---- MODULE Spec2Model ----
(***************************************************************************)
(* A model of the MSF budget/expense pipeline: bronze ingestion of budget  *)
(* CSV files and expense SQLite databases, silver cleaning (project id     *)
(* normalisation, month-end dates, EUR conversion through the exchange     *)
(* rate client), the gold inner join, and the star schema built by         *)
(* main.py.  One run of main.py is one behaviour; the data directory, the  *)
(* environment and the rate provider's answers are the inputs.             *)
(*                                                                         *)
(* A DataFrame is a record [cols, rows]: cols is the set of column names   *)
(* and rows a sequence of functions from cols to cell values.  Text that   *)
(* the code builds and parses again (file names, the date string, the      *)
(* date key) is a sequence of tokens or characters, so that formatting and *)
(* parsing are computed, not assumed.                                      *)
(***************************************************************************)
EXTENDS Integers, Sequences, FiniteSets, TLC

VARIABLES
    API_KEY,            \* TRUE iff EXCHANGE_RATE_API_KEY is set in the environment
    dirExists,          \* os.path.exists(DATA_DIRECTORY)
    listdir,            \* os.listdir(DATA_DIRECTORY): the directory entries, in listing order
    budgetCol,          \* name of the amount column in the budget CSV headers
    pc,                 \* position of the run
    i,                  \* index of the directory entry the running bronze loop is at
    conn,               \* set of directory indexes whose database connection is open
    file_df,            \* the local df of the file being ingested
    all_budget_df,      \* bronze_budget's accumulator and result
    budget_df,          \* silver_budget's frame
    all_expenses_df,    \* bronze_expenses' accumulator and result
    expenses_df,        \* silver_expenses' frame
    response,           \* the HTTP outcome of the rate request just made
    kes_to_eur_rate,    \* silver_expenses' local
    xof_to_eur_rate,    \* silver_expenses' local
    df,                 \* main.py's df: the gold table, later with the keys merged in
    dims,               \* the five dimension tables
    fact_expenses,      \* the fact table
    gold_csv,           \* the table written to gold_df.csv
    written,            \* set of output files written
    log,                \* diagnostics printed so far
    exc,                \* the uncaught exception that ended the run, or NoExc
    returned,           \* the calls that have returned normally
    requested,          \* base currencies of the rate requests sent, in order
    exitCode            \* "running", then "0" or "nonzero" once the process has ended

vars == <<API_KEY, dirExists, listdir, budgetCol, pc, i, conn, file_df,
          all_budget_df, budget_df, all_expenses_df, expenses_df, response,
          kes_to_eur_rate, xof_to_eur_rate, df, dims, fact_expenses, gold_csv,
          written, log, exc, returned, requested, exitCode>>

----------------------------------------------------------------------------
(* Bounds of the model *)

MaxFiles == 2
MaxRows == 2

----------------------------------------------------------------------------
(* Cell values *)

\* A missing float (pandas NaN); the amounts and rates of the model are naturals.
NaN == -1
\* Python's None, as get_latest_exchange_rate returns it.
None == -2
\* A missing date (pandas NaT); a date is <<year, month, day>>.
NaT == <<>>

NoExc == [type |-> "none", origin |-> "none"]
NoResponse == [net |-> "none"]

\* a * b on floats: NaN propagates.
Mul(a, b) == IF a = NaN \/ b = NaN THEN NaN ELSE a * b

EmptyDataFrame == [cols |-> {}, rows |-> <<>>]

\* df.empty
IsEmpty(d) == d.cols = {} \/ Len(d.rows) = 0

RECURSIVE SeqSum(_)
SeqSum(s) == IF s = <<>> THEN 0 ELSE Head(s) + SeqSum(Tail(s))

Range(s) == {s[k] : k \in DOMAIN s}

\* The row r without the columns in drop.
DropCols(r, drop) == [c \in (DOMAIN r) \ drop |-> r[c]]

\* df.drop(columns=...): KeyError unless every named column exists.
DropColumns(d, drop) ==
    [cols |-> d.cols \ drop,
     rows |-> [k \in DOMAIN d.rows |-> DropCols(d.rows[k], drop)]]

\* df[col] = value for every row (add or overwrite a column).
SetCol(r, col, v) == (col :> v) @@ r

\* pd.concat([a, b], ignore_index=True) of frames with the same columns.
Concat(a, b) == [cols |-> a.cols \cup b.cols, rows |-> a.rows \o b.rows]

----------------------------------------------------------------------------
(* Reference data *)

\* The map inside bronze_budget.
BUDGET_PROJECT_CURRENCY_MAP ==
    [BE01 |-> [country |-> "Belgium", currency |-> "EUR"],
     BE55 |-> [country |-> "Belgium", currency |-> "EUR"],
     KE01 |-> [country |-> "Kenya", currency |-> "KES"],
     KEO2 |-> [country |-> "Kenya", currency |-> "KES"],
     SN01 |-> [country |-> "Senegal", currency |-> "XOF"],
     SN02 |-> [country |-> "Senegal", currency |-> "XOF"],
     BF01 |-> [country |-> "Burkina Faso", currency |-> "XOF"],
     BF02 |-> [country |-> "Burkina Faso", currency |-> "XOF"]]

\* The map inside bronze_expenses.
EXPENSES_PROJECT_CURRENCY_MAP ==
    [BE01 |-> [country |-> "Belgium", currency |-> "EUR"],
     BE55 |-> [country |-> "Belgium", currency |-> "EUR"],
     KE01 |-> [country |-> "Kenya", currency |-> "KES"],
     KE02 |-> [country |-> "Kenya", currency |-> "KES"],
     SN01 |-> [country |-> "Senegal", currency |-> "XOF"],
     SN02 |-> [country |-> "Senegal", currency |-> "XOF"],
     BF01 |-> [country |-> "Burkina Faso", currency |-> "XOF"],
     BF02 |-> [country |-> "Burkina Faso", currency |-> "XOF"]]

----------------------------------------------------------------------------
(* File names.  A name is a sequence of tokens, the last one the extension  *)
(* when it starts with a dot: "BE01_budget.csv" is <<"BE01","_budget",".csv">>. *)

Extensions == {".csv", ".db", ".txt"}

\* filename.endswith(suffix), suffix given as tokens.
EndsWith(name, suffix) ==
    /\ Len(name) >= Len(suffix)
    /\ SubSeq(name, Len(name) - Len(suffix) + 1, Len(name)) = suffix

\* os.path.splitext(filename)[0]
SplitExtRoot(name) ==
    IF name # <<>> /\ name[Len(name)] \in Extensions
        THEN SubSeq(name, 1, Len(name) - 1)
        ELSE name

\* Variant: the '_budget' suffix is left in the project id.
ReplaceBudgetNoop(root) == root

\* s.replace('_budget', '')
ReplaceBudget(root) == SelectSeq(root, LAMBDA t : t # "_budget")

\* PROJECT_CURRENCY_MAP.get(base_project_id): the key is a string, so only a
\* one-token id can be a key.
InMap(map, id) == Len(id) = 1 /\ id[1] \in DOMAIN map

----------------------------------------------------------------------------
(* Decimal text *)

DigitChars == <<"0", "1", "2", "3", "4", "5", "6", "7", "8", "9">>

\* str(n) for a natural n.
RECURSIVE Str(_)
Str(n) == IF n < 10 THEN <<DigitChars[n + 1]>>
          ELSE Str(n \div 10) \o <<DigitChars[(n % 10) + 1]>>

\* s.zfill(w)
RECURSIVE ZFill(_, _)
ZFill(s, w) == IF Len(s) >= w THEN s ELSE ZFill(<<"0">> \o s, w)

IsDigit(c) == \E k \in 1..10 : DigitChars[k] = c

DigitValue(c) == (CHOOSE k \in 1..10 : DigitChars[k] = c) - 1

AllDigits(s) == s # <<>> /\ \A k \in DOMAIN s : IsDigit(s[k])

\* int(s) for a string of digits.
RECURSIVE ParseInt(_)
ParseInt(s) == IF s = <<>> THEN 0
               ELSE 10 * ParseInt(SubSeq(s, 1, Len(s) - 1)) + DigitValue(s[Len(s)])

\* s.split('-')
RECURSIVE SplitDash(_)
SplitDash(s) ==
    IF \A k \in DOMAIN s : s[k] # "-" THEN <<s>>
    ELSE LET p == CHOOSE k \in DOMAIN s : s[k] = "-" /\ \A j \in 1..(k - 1) : s[j] # "-"
         IN <<SubSeq(s, 1, p - 1)>> \o SplitDash(SubSeq(s, p + 1, Len(s)))

----------------------------------------------------------------------------
(* Dates *)

IsLeap(y) == (y % 4 = 0 /\ y % 100 # 0) \/ y % 400 = 0

DaysInMonth(y, m) ==
    IF m = 2 THEN (IF IsLeap(y) THEN 29 ELSE 28)
    ELSE <<31, 28, 31, 30, 31, 30, 31, 31, 30, 31, 30, 31>>[m]

\* pd.to_datetime(s, errors='coerce') of a 'YYYY-MM-DD' string: NaT unless the
\* text is a four-digit year, a month and a day that form a calendar date.
ToDatetime(s) ==
    LET parts == SplitDash(s) IN
    IF /\ Len(parts) = 3
       /\ \A k \in 1..3 : AllDigits(parts[k])
       /\ Len(parts[1]) = 4
       /\ Len(parts[2]) \in 1..2
       /\ Len(parts[3]) \in 1..2
       /\ ParseInt(parts[2]) \in 1..12
       /\ ParseInt(parts[3]) \in 1..DaysInMonth(ParseInt(parts[1]), ParseInt(parts[2]))
    THEN <<ParseInt(parts[1]), ParseInt(parts[2]), ParseInt(parts[3])>>
    ELSE NaT

\* date + MonthEnd(1): the next month end strictly after a date that is not one,
\* the end of the following month for a date that already is one; NaT stays NaT.
AddMonthEnd(d) ==
    IF d = NaT THEN NaT
    ELSE IF d[3] < DaysInMonth(d[1], d[2]) THEN <<d[1], d[2], DaysInMonth(d[1], d[2])>>
    ELSE IF d[2] = 12 THEN <<d[1] + 1, 1, 31>>
    ELSE <<d[1], d[2] + 1, DaysInMonth(d[1], d[2] + 1)>>

\* year.astype(str) + '-' + month.astype(str).str.zfill(2) + '-01'
TempDateStr(year, month) == Str(year) \o <<"-">> \o ZFill(Str(month), 2) \o <<"-", "0", "1">>

\* Variant: the MonthEnd offset is not added, the date stays the 1st.
DeriveDateMonthStart(year, month) == ToDatetime(TempDateStr(year, month))

\* The date column both silver functions derive for one row.
DeriveDate(year, month) == AddMonthEnd(ToDatetime(TempDateStr(year, month)))

\* Lines 61-76 / 140-155 on a whole frame: the date column is added and year,
\* month and the temporary string are dropped; every row is kept.
WithDate(d) ==
    [cols |-> (d.cols \ {"year", "month"}) \cup {"date"},
     rows |-> [k \in DOMAIN d.rows |->
                 SetCol(DropCols(d.rows[k], {"year", "month"}), "date",
                        DeriveDate(d.rows[k].year, d.rows[k].month))]]

\* dt.strftime('%Y%m%d').astype(int) of a date.
DateId(d) == ParseInt(ZFill(Str(d[1]), 4) \o ZFill(Str(d[2]), 2) \o ZFill(Str(d[3]), 2))

----------------------------------------------------------------------------
(* Inputs: the data directory *)

\* One row of a budget CSV; bc is the header's name for the amount column.
BudgetRow(bc, year, month, department, category, amount, id) ==
    (bc :> amount) @@
    [year |-> year, month |-> month, department |-> department,
     category |-> category, version |-> 1, id |-> id]

BudgetCsvCols(bc) == {bc, "year", "month", "department", "category", "version", "id"}

\* One row of an expenses table.  The currency and amount_eur columns of the
\* database hold values the pipeline must not use.
ExpenseRow(year, month, department, category, amount_local, id) ==
    [amount_local |-> amount_local, amount_eur |-> 99, year |-> year,
     month |-> month, department |-> department, category |-> category,
     currency |-> "XOF", id |-> id]

ExpenseDbCols ==
    {"amount_local", "amount_eur", "year", "month", "department", "category",
     "currency", "id"}

\* A directory entry.  read is what reading it gives: "ok", "parse_error" (a CSV
\* pandas cannot parse), "connect_error" (sqlite3.connect fails) or
\* "query_error" (the SELECT fails: no expenses table, not a database).
File(name, isdir, read, rows) ==
    [name |-> name, isdir |-> isdir, read |-> read, rows |-> rows]

CsvName(p) == <<p, "_budget", ".csv">>
DbName(p) == <<p, ".db">>

\* Sequences over S of length at most n.
SeqsUpTo(S, n) == UNION {[1..k -> S] : k \in 0..n}

\* os.listdir never lists a name twice.
DistinctNames(d) == \A a, b \in DOMAIN d : a # b => d[a].name # d[b].name

\* Ingestion family: up to MaxFiles entries of every kind, each readable file
\* holding 0..MaxRows copies of one row.
DefaultBudgetRows(bc, n) ==
    [k \in 1..n |-> BudgetRow(bc, 2024, 3, "Logistics", "Fuel", 10 + k, k)]

DefaultExpenseRows(n) ==
    [k \in 1..n |-> ExpenseRow(2024, 3, "Logistics", "Fuel", 20 + k, k)]

IngestionFiles(bc) ==
    {File(CsvName(p), FALSE, "ok", DefaultBudgetRows(bc, n)) :
        p \in {"BE01", "KEO2"}, n \in 0..MaxRows}
    \cup {File(CsvName(p), FALSE, "parse_error", <<>>) : p \in {"BE01", "KEO2"}}
    \cup {File(CsvName("ZZ99"), FALSE, "ok", DefaultBudgetRows(bc, 1))}
    \cup {File(DbName(p), FALSE, "ok", DefaultExpenseRows(n)) :
            p \in {"BE01", "KE02"}, n \in 0..MaxRows}
    \cup {File(DbName(p), FALSE, r, <<>>) :
            p \in {"BE01", "KE02"}, r \in {"connect_error", "query_error"}}
    \cup {File(DbName("ZZ99"), FALSE, "ok", DefaultExpenseRows(1))}
    \cup {File(<<"notes", ".txt">>, FALSE, "ok", <<>>)}
    \cup {File(CsvName("BE55"), TRUE, "ok", <<>>)}

IngestionDirs(bc) == {d \in SeqsUpTo(IngestionFiles(bc), MaxFiles) : DistinctNames(d)}

\* Date family: one budget row and one expense row of any year and month.
Years == {1900, 2000, 2023, 2024}
Months == 0..13

DateDirs(bc) ==
    {<<File(CsvName("BE01"), FALSE, "ok",
            <<BudgetRow(bc, y, m, "Logistics", "Fuel", 11, 1)>>),
       File(DbName("BE01"), FALSE, "ok",
            <<ExpenseRow(IF same THEN y ELSE 2024, IF same THEN m ELSE 2,
                         "Logistics", "Fuel", 21, 1)>>)>> :
        y \in Years, m \in Months, same \in BOOLEAN}

\* Join family: up to MaxRows rows a side, of varying department and category,
\* for projects that agree, agree after normalisation, or differ.
JoinKeys ==
    {<<"Logistics", "Fuel", 3>>, <<"Medical", "Fuel", 3>>, <<"Logistics", "Rent", 3>>}

JoinBudgetRows(bc) ==
    {[k \in DOMAIN ks |-> BudgetRow(bc, 2024, ks[k][3], ks[k][1], ks[k][2], 10 + k, k)] :
        ks \in SeqsUpTo(JoinKeys, MaxRows)}

JoinExpenseRows ==
    {[k \in DOMAIN ks |-> ExpenseRow(2024, ks[k][3], ks[k][1], ks[k][2], 20 + k, k)] :
        ks \in SeqsUpTo(JoinKeys, MaxRows)}

JoinProjects == {<<"BE01", "BE01">>, <<"KEO2", "KE02">>, <<"BE55", "BE01">>}

JoinDirs(bc) ==
    {<<File(CsvName(pp[1]), FALSE, "ok", rb), File(DbName(pp[2]), FALSE, "ok", re)>> :
        pp \in JoinProjects, rb \in JoinBudgetRows(bc), re \in JoinExpenseRows}

\* Currency family: one budget file and two expense databases of different
\* projects, with up to MaxRows amounts each.
Amounts == {0, 3}

AmountRows ==
    {[k \in DOMAIN as |-> ExpenseRow(2024, 3, "Logistics", "Fuel", as[k], k)] :
        as \in SeqsUpTo(Amounts, MaxRows)}

CurrencyProjects ==
    {pp \in {"BE01", "KE02", "SN01"} \X {"BE01", "KE02", "SN01"} : pp[1] # pp[2]}

CurrencyDirs(bc) ==
    {<<File(CsvName("BE01"), FALSE, "ok", DefaultBudgetRows(bc, 1)),
       File(DbName(pp[1]), FALSE, "ok", r1), File(DbName(pp[2]), FALSE, "ok", r2)>> :
        pp \in CurrencyProjects, r1 \in AmountRows, r2 \in AmountRows}

\* Handle family: one budget file and two expense databases, each of which
\* opens and reads, fails to open, or opens and fails the query.
DbReads == {"ok", "connect_error", "query_error"}

HandleDirs(bc) ==
    {<<File(CsvName("BE01"), FALSE, "ok", DefaultBudgetRows(bc, 1)),
       File(DbName(pp[1]), FALSE, r1, IF r1 = "ok" THEN DefaultExpenseRows(1) ELSE <<>>),
       File(DbName(pp[2]), FALSE, r2, IF r2 = "ok" THEN DefaultExpenseRows(1) ELSE <<>>)>> :
        pp \in CurrencyProjects, r1 \in DbReads, r2 \in DbReads}

\* Reference family: for every key of the budget map, its budget file beside
\* the database of the project that key is normalised to; and a budget file
\* named by the expense map's key KE02, which the budget map does not hold.
ReferenceDirs(bc) ==
    {<<File(CsvName(p), FALSE, "ok", DefaultBudgetRows(bc, 1)),
       File(DbName(IF p = "KEO2" THEN "KE02" ELSE p), FALSE, "ok",
            DefaultExpenseRows(1))>> :
        p \in DOMAIN BUDGET_PROJECT_CURRENCY_MAP}
    \cup {<<File(CsvName("KE02"), FALSE, "ok", DefaultBudgetRows(bc, 1)),
            File(DbName("KE02"), FALSE, "ok", DefaultExpenseRows(1))>>}

----------------------------------------------------------------------------
(* Inputs: the rate provider *)

RateValues == {3}

\* What one requests.get(url) can come to.  net: the transport outcome; status:
\* the HTTP status; json: whether the body parses and to what; result: the
\* envelope's "result"; rates: the envelope's "conversion_rates"; value: the
\* target's rate when rates holds it.
Resp(net, status, json, result, rates, value) ==
    [net |-> net, status |-> status, json |-> json, result |-> result,
     rates |-> rates, value |-> value]

Responses ==
    {Resp("connection_error", 0, "none", "none", "none", 0),
     Resp("timeout", 0, "none", "none", "none", 0),
     Resp("ok", 404, "object", "error", "absent", 0),
     Resp("ok", 200, "invalid", "none", "none", 0),
     Resp("ok", 200, "array", "none", "none", 0),
     Resp("ok", 200, "object", "error", "absent", 0),
     Resp("ok", 200, "object", "absent", "with_target", 3),
     Resp("ok", 200, "object", "success", "absent", 0),
     Resp("ok", 200, "object", "success", "empty", 0),
     Resp("ok", 200, "object", "success", "without_target", 0)}
    \cup {Resp("ok", 200, "object", "success", "with_target", v) : v \in RateValues}

----------------------------------------------------------------------------
(* The exchange rate client *)

Returns(v) == [raised |-> "none", value |-> v]
Raises(e) == [raised |-> e, value |-> None]

\* get_latest_exchange_rate(base, "EUR") when requests.get comes to r: the
\* value returned, or the exception that leaves the function.
GetLatestExchangeRate(r) ==
    IF r.net = "connection_error" THEN Returns(None)      \* except ConnectionError
    ELSE IF r.net = "timeout" THEN Returns(None)          \* except Timeout
    ELSE IF r.status >= 400 THEN Returns(None)            \* raise_for_status, except RequestException
    ELSE IF r.json = "invalid" THEN Returns(None)         \* response.json() fails to decode
    ELSE IF r.json # "object" THEN Raises("AttributeError")   \* data.get on a list
    ELSE IF r.result = "success" THEN
        IF r.rates = "with_target" THEN Returns(r.value)
        ELSE Returns(None)                                \* absent, empty or without the target
    ELSE Returns(None)

----------------------------------------------------------------------------
(* Frames *)

Column(d, col) == [k \in DOMAIN d.rows |-> d.rows[k][col]]

\* Every row's col set by f of the row.
MapRows(d, col, f(_)) ==
    [cols |-> d.cols \cup {col},
     rows |-> [k \in DOMAIN d.rows |-> SetCol(d.rows[k], col, f(d.rows[k]))]]

\* Variant: the replace has no effect (its result is not assigned back).
ReplaceNothing(v, old, new) == v

\* Series.replace(old, new)
Replace(v, old, new) == IF v = old THEN new ELSE v

\* Variant: an unavailable rate is taken as 0 (a fillna(0) on the rate).
MapValueNoneAsZero(mapping, key) ==
    IF key \in DOMAIN mapping
        THEN (IF mapping[key] = None THEN 0 ELSE mapping[key])
        ELSE NaN

\* Series.map(mapping): NaN for a key the mapping lacks and for a None value.
MapValue(mapping, key) ==
    IF key \in DOMAIN mapping /\ mapping[key] # None THEN mapping[key] ELSE NaN

\* The rows of right whose key columns equal l's (missing keys match each other).
MatchesOf(l, right, on) == SelectSeq(right, LAMBDA r : \A c \in on : r[c] = l[c])

RECURSIVE InnerRows(_, _, _)
InnerRows(left, right, on) ==
    IF left = <<>> THEN <<>>
    ELSE LET m == MatchesOf(Head(left), right, on)
         IN [k \in DOMAIN m |-> Head(left) @@ m[k]] \o InnerRows(Tail(left), right, on)

\* pd.merge(a, b, on=on, how='inner')
InnerMerge(a, b, on) ==
    [cols |-> a.cols \cup b.cols, rows |-> InnerRows(a.rows, b.rows, on)]

RECURSIVE LeftRows(_, _, _, _)
LeftRows(left, right, on, newcol) ==
    IF left = <<>> THEN <<>>
    ELSE LET m == MatchesOf(Head(left), right, on)
         IN (IF m = <<>> THEN <<SetCol(Head(left), newcol, NaN)>>
             ELSE [k \in DOMAIN m |-> SetCol(Head(left), newcol, m[k][newcol])])
            \o LeftRows(Tail(left), right, on, newcol)

\* a.merge(dim[[on, newcol]], on=on, how='left')
LeftMerge(a, dim, on, newcol) ==
    [cols |-> a.cols \cup {newcol}, rows |-> LeftRows(a.rows, dim, {on}, newcol)]

RECURSIVE Dedup(_, _)
Dedup(s, seen) ==
    IF s = <<>> THEN <<>>
    ELSE IF Head(s) \in seen THEN Dedup(Tail(s), seen)
    ELSE <<Head(s)>> \o Dedup(Tail(s), seen \cup {Head(s)})

\* Variant: drop_duplicates(keep=False), a repeated value is dropped altogether.
DropDuplicatesKeepNone(s) ==
    SelectSeq(s, LAMBDA v : Cardinality({k \in DOMAIN s : s[k] = v}) = 1)

\* drop_duplicates().reset_index(drop=True) of one column: first occurrences,
\* in order.
DropDuplicates(s) == Dedup(s, {})

\* Variant: the key is the index itself, without the + 1.
SurrogateKeyZeroBased(k) == k - 1

\* dim.index + 1 at position k of the reset index (0-based index k - 1).
SurrogateKey(k) == (k - 1) + 1

\* df[[col]].drop_duplicates().reset_index(drop=True) with idcol = index + 1.
Dimension(d, col, idcol) ==
    LET vals == DropDuplicates(Column(d, col))
    IN [k \in DOMAIN vals |-> (col :> vals[k]) @@ (idcol :> SurrogateKey(k))]

\* dim_date (month_name, day_name and is_weekend are left out).
DimDate(d) ==
    LET vals == DropDuplicates(Column(d, "date"))
    IN [k \in DOMAIN vals |->
          [date_id |-> DateId(vals[k]), date |-> vals[k], year |-> vals[k][1],
           month |-> vals[k][2], day |-> vals[k][3], year_id |-> vals[k][1],
           month_id |-> ParseInt(ZFill(Str(vals[k][1]), 4) \o ZFill(Str(vals[k][2]), 2)),
           quarter |-> ((vals[k][2] - 1) \div 3) + 1]]

NoDims == [date |-> <<>>, department |-> <<>>, country |-> <<>>,
           category |-> <<>>, project |-> <<>>]

FactCols ==
    {"date_id", "department_id", "country_id", "category_id",
     "project_id_numeric", "budget_eur", "amount_eur"}

OutputFiles ==
    {"gold_df.csv", "dim_date.csv", "dim_department.csv", "dim_country.csv",
     "dim_category.csv", "dim_project.csv", "fact_expenses.csv"}

----------------------------------------------------------------------------
(* The run *)

inputs == <<API_KEY, dirExists, listdir, budgetCol>>
bronzeVars == <<i, conn, file_df, all_budget_df, all_expenses_df>>
silverVars == <<budget_df, expenses_df, response, kes_to_eur_rate, xof_to_eur_rate>>
mainVars == <<df, dims, fact_expenses, gold_csv, written>>

\* The process before main.py's first line.  The inputs are a missing
\* credential, a missing directory, or a directory of one of the families; the
\* budget CSVs name their amount column budget_eur, as main.py reads it, or
\* amount, as the docstrings of bronze_budget and silver_budget have it.
Init ==
    /\ \/ /\ API_KEY = FALSE
          /\ dirExists = TRUE
          /\ budgetCol = "budget_eur"
          /\ listdir = <<>>
       \/ /\ API_KEY = TRUE
          /\ dirExists = FALSE
          /\ budgetCol = "budget_eur"
          /\ listdir = <<>>
       \/ /\ API_KEY = TRUE
          /\ dirExists = TRUE
          /\ budgetCol = "budget_eur"
          /\ listdir \in IngestionDirs(budgetCol) \cup JoinDirs(budgetCol)
                          \cup CurrencyDirs(budgetCol) \cup HandleDirs(budgetCol)
                          \cup ReferenceDirs(budgetCol)
       \/ /\ API_KEY = TRUE
          /\ dirExists = TRUE
          /\ budgetCol \in {"amount", "budget_eur"}
          /\ listdir \in DateDirs(budgetCol)
    /\ pc = "import"
    /\ i = 0
    /\ conn = {}
    /\ file_df = EmptyDataFrame
    /\ all_budget_df = EmptyDataFrame
    /\ budget_df = EmptyDataFrame
    /\ all_expenses_df = EmptyDataFrame
    /\ expenses_df = EmptyDataFrame
    /\ response = NoResponse
    /\ kes_to_eur_rate = None
    /\ xof_to_eur_rate = None
    /\ df = EmptyDataFrame
    /\ dims = NoDims
    /\ fact_expenses = EmptyDataFrame
    /\ gold_csv = EmptyDataFrame
    /\ written = {}
    /\ log = <<>>
    /\ exc = NoExc
    /\ returned = {}
    /\ requested = <<>>
    /\ exitCode = "running"

\* An exception nothing catches: the interpreter prints it and exits non-zero.
Raise(type, origin) ==
    /\ pc' = "exit"
    /\ exc' = [type |-> type, origin |-> origin]
    /\ exitCode' = "nonzero"

Goto(next) == pc' = next /\ UNCHANGED <<exc, exitCode>>

Emit(msg) == log' = Append(log, msg)

\* main.py line 2 imports gold_layer, silver_layer and get_latest_exchange_rate,
\* whose module body raises ValueError when the credential is missing.
Import ==
    /\ pc = "import"
    /\ IF API_KEY THEN Goto("bronze_budget")
       ELSE Raise("ValueError", "get_latest_exchange_rate.py")
    /\ UNCHANGED <<inputs, requested, bronzeVars, silverVars, mainVars, log, returned>>

\* bronze_budget up to its loop.
BronzeBudgetStart ==
    /\ pc = "bronze_budget"
    /\ all_budget_df' = EmptyDataFrame
    /\ i' = 1
    /\ IF dirExists THEN UNCHANGED log
       ELSE Emit(<<"directory_not_found", "bronze_budget", <<>>>>)
    /\ Goto("bronze_budget_loop")
    /\ UNCHANGED <<inputs, requested, conn, file_df, all_expenses_df, silverVars, mainVars, returned>>

\* extract_budget_from_csv: the frame read, or an empty frame after any error.
ExtractBudgetFromCsv(f) ==
    IF f.read = "ok" THEN [cols |-> BudgetCsvCols(budgetCol), rows |-> f.rows]
    ELSE EmptyDataFrame

BudgetProjectId(f) == ReplaceBudget(SplitExtRoot(f.name))

\* df['project_id'] = ..., df['country'] = ... and the concat.
TagBudget(d, id) ==
    MapRows(MapRows(d, "project_id", LAMBDA r : id),
            "country", LAMBDA r : BUDGET_PROJECT_CURRENCY_MAP[id].country)

\* One iteration of bronze_budget's loop.
BronzeBudgetFile ==
    /\ pc = "bronze_budget_loop"
    /\ i <= Len(listdir)
    /\ LET f == listdir[i]
           id == BudgetProjectId(f)
           d == ExtractBudgetFromCsv(f)
       IN IF f.isdir \/ ~EndsWith(f.name, <<"_budget", ".csv">>)
          THEN UNCHANGED <<all_budget_df, file_df, log>>
          ELSE IF ~InMap(BUDGET_PROJECT_CURRENCY_MAP, id)
          THEN /\ Emit(<<"unknown_project", "bronze_budget", f.name>>)
               /\ UNCHANGED <<all_budget_df, file_df>>
          ELSE /\ file_df' = d
               /\ IF ~IsEmpty(d)
                  THEN /\ all_budget_df' = Concat(all_budget_df, TagBudget(d, id[1]))
                       /\ UNCHANGED log
                  ELSE /\ UNCHANGED all_budget_df
                       /\ IF f.read = "ok"
                          THEN Emit(<<"no_data", "bronze_budget", f.name>>)
                          ELSE log' = log \o <<<<"read_error", "bronze_budget", f.name>>,
                                               <<"no_data", "bronze_budget", f.name>>>>
    /\ i' = i + 1
    /\ Goto("bronze_budget_loop")
    /\ UNCHANGED <<inputs, requested, conn, all_expenses_df, silverVars, mainVars, returned>>

\* bronze_budget returns; silver_budget holds the same frame.
BronzeBudgetReturn ==
    /\ pc = "bronze_budget_loop"
    /\ i > Len(listdir)
    /\ budget_df' = all_budget_df
    /\ returned' = returned \cup {"bronze_budget"}
    /\ Goto("silver_budget_replace")
    /\ UNCHANGED <<inputs, requested, bronzeVars, expenses_df, response, kes_to_eur_rate,
                   xof_to_eur_rate, mainVars, log>>

\* budget_df['project_id'].replace('KEO2', 'KE02'): KeyError on a frame without
\* the column.
SilverBudgetReplace ==
    /\ pc = "silver_budget_replace"
    /\ IF "project_id" \in budget_df.cols
       THEN /\ budget_df' = MapRows(budget_df, "project_id",
                                    LAMBDA r : Replace(r.project_id, "KEO2", "KE02"))
            /\ Goto("silver_budget_drop")
       ELSE /\ Raise("KeyError", "silver_budget")
            /\ UNCHANGED budget_df
    /\ UNCHANGED <<inputs, requested, bronzeVars, expenses_df, response, kes_to_eur_rate,
                   xof_to_eur_rate, mainVars, log, returned>>

\* budget_df.drop(columns=['version', 'id'], inplace=True)
SilverBudgetDrop ==
    /\ pc = "silver_budget_drop"
    /\ IF {"version", "id"} \subseteq budget_df.cols
       THEN /\ budget_df' = DropColumns(budget_df, {"version", "id"})
            /\ Goto("silver_budget_date")
       ELSE /\ Raise("KeyError", "silver_budget")
            /\ UNCHANGED budget_df
    /\ UNCHANGED <<inputs, requested, bronzeVars, expenses_df, response, kes_to_eur_rate,
                   xof_to_eur_rate, mainVars, log, returned>>

\* silver_budget lines 61-78: the date column, then return.
SilverBudgetDate ==
    /\ pc = "silver_budget_date"
    /\ IF {"year", "month"} \subseteq budget_df.cols
       THEN /\ budget_df' = WithDate(budget_df)
            /\ returned' = returned \cup {"silver_budget"}
            /\ Goto("bronze_expenses")
       ELSE /\ Raise("KeyError", "silver_budget")
            /\ UNCHANGED <<budget_df, returned>>
    /\ UNCHANGED <<inputs, requested, bronzeVars, expenses_df, response, kes_to_eur_rate,
                   xof_to_eur_rate, mainVars, log>>

\* bronze_expenses up to its loop.
BronzeExpensesStart ==
    /\ pc = "bronze_expenses"
    /\ all_expenses_df' = EmptyDataFrame
    /\ i' = 1
    /\ IF dirExists THEN UNCHANGED log
       ELSE Emit(<<"directory_not_found", "bronze_expenses", <<>>>>)
    /\ Goto("bronze_expenses_loop")
    /\ UNCHANGED <<inputs, requested, conn, file_df, all_budget_df, silverVars, mainVars, returned>>

ExpensesProjectId(f) == SplitExtRoot(f.name)

\* One iteration of bronze_expenses' loop up to the call of
\* extract_expenses_from_db (lines 219-240).
BronzeExpensesFile ==
    /\ pc = "bronze_expenses_loop"
    /\ i <= Len(listdir)
    /\ LET f == listdir[i]
           id == ExpensesProjectId(f)
       IN IF f.isdir \/ ~EndsWith(f.name, <<".db">>)
          THEN /\ i' = i + 1
               /\ Goto("bronze_expenses_loop")
               /\ UNCHANGED log
          ELSE IF ~InMap(EXPENSES_PROJECT_CURRENCY_MAP, id)
          THEN /\ Emit(<<"unknown_project", "bronze_expenses", f.name>>)
               /\ i' = i + 1
               /\ Goto("bronze_expenses_loop")
          ELSE /\ Goto("db_connect")
               /\ UNCHANGED <<i, log>>
    /\ UNCHANGED <<inputs, requested, conn, file_df, all_budget_df, all_expenses_df, silverVars,
                   mainVars, returned>>

\* extract_expenses_from_db, lines 184-186: sqlite3.connect.  Its failure is a
\* sqlite3.Error: caught, logged, an empty frame returned, nothing to close.
DbConnect ==
    /\ pc = "db_connect"
    /\ IF listdir[i].read = "connect_error"
       THEN /\ Emit(<<"read_error", "bronze_expenses", listdir[i].name>>)
            /\ file_df' = EmptyDataFrame
            /\ Goto("bronze_expenses_append")
            /\ UNCHANGED conn
       ELSE /\ conn' = conn \cup {i}
            /\ Goto("db_query")
            /\ UNCHANGED <<file_df, log>>
    /\ UNCHANGED <<inputs, requested, i, all_budget_df, all_expenses_df, silverVars, mainVars, returned>>

\* Lines 187-189: pd.read_sql_query.  pandas raises its own DatabaseError (an
\* OSError) for a query sqlite3 rejects; it is no sqlite3.Error, so the except
\* clause does not take it and it is pending while the finally clause runs.
DbQuery ==
    /\ pc = "db_query"
    /\ IF listdir[i].read = "query_error"
       THEN /\ exc' = [type |-> "DatabaseError", origin |-> "extract_expenses_from_db"]
            /\ UNCHANGED file_df
       ELSE /\ file_df' = [cols |-> ExpenseDbCols, rows |-> listdir[i].rows]
            /\ UNCHANGED exc
    /\ pc' = "db_finally"
    /\ UNCHANGED <<inputs, requested, i, conn, all_budget_df, all_expenses_df, silverVars, mainVars,
                   log, returned, exitCode>>

\* Variant: conn.close() at the end of the try body instead of in a finally
\* clause, so that a pending exception leaves the connection open.
DbCloseInTryBody ==
    /\ pc = "db_finally"
    /\ IF exc = NoExc
       THEN conn' = conn \ {i} /\ Goto("bronze_expenses_append")
       ELSE UNCHANGED conn /\ Raise(exc.type, exc.origin)
    /\ UNCHANGED <<inputs, requested, i, file_df, all_budget_df, all_expenses_df, silverVars,
                   mainVars, log, returned>>

\* Lines 193-195: the finally clause closes the connection; a pending exception
\* then leaves extract_expenses_from_db, bronze_expenses and the run.
DbFinally ==
    /\ pc = "db_finally"
    /\ conn' = conn \ {i}
    /\ IF exc = NoExc THEN Goto("bronze_expenses_append")
       ELSE Raise(exc.type, exc.origin)
    /\ UNCHANGED <<inputs, requested, i, file_df, all_budget_df, all_expenses_df, silverVars,
                   mainVars, log, returned>>

\* Variant: original_currency is taken from the database's currency column.
TagExpensesDbCurrency(d, id) ==
    MapRows(MapRows(MapRows(d, "project_id", LAMBDA r : id),
                    "country", LAMBDA r : EXPENSES_PROJECT_CURRENCY_MAP[id].country),
            "original_currency", LAMBDA r : r.currency)

\* df['project_id'], df['country'], df['original_currency'] from the map.
TagExpenses(d, id) ==
    MapRows(MapRows(MapRows(d, "project_id", LAMBDA r : id),
                    "country", LAMBDA r : EXPENSES_PROJECT_CURRENCY_MAP[id].country),
            "original_currency", LAMBDA r : EXPENSES_PROJECT_CURRENCY_MAP[id].currency)

\* Lines 242-249: the rest of the iteration.
BronzeExpensesAppend ==
    /\ pc = "bronze_expenses_append"
    /\ IF ~IsEmpty(file_df)
       THEN /\ all_expenses_df' =
                   Concat(all_expenses_df, TagExpenses(file_df, ExpensesProjectId(listdir[i])[1]))
            /\ UNCHANGED log
       ELSE /\ Emit(<<"no_data", "bronze_expenses", listdir[i].name>>)
            /\ UNCHANGED all_expenses_df
    /\ i' = i + 1
    /\ Goto("bronze_expenses_loop")
    /\ UNCHANGED <<inputs, requested, conn, file_df, all_budget_df, silverVars, mainVars, returned>>

\* bronze_expenses returns; silver_expenses holds the same frame.
BronzeExpensesReturn ==
    /\ pc = "bronze_expenses_loop"
    /\ i > Len(listdir)
    /\ expenses_df' = all_expenses_df
    /\ returned' = returned \cup {"bronze_expenses"}
    /\ Goto("silver_expenses_drop")
    /\ UNCHANGED <<inputs, requested, bronzeVars, budget_df, response, kes_to_eur_rate,
                   xof_to_eur_rate, mainVars, log>>

\* expenses_df.drop(columns=['id', 'currency'], inplace=True)
SilverExpensesDrop ==
    /\ pc = "silver_expenses_drop"
    /\ IF {"id", "currency"} \subseteq expenses_df.cols
       THEN /\ expenses_df' = DropColumns(expenses_df, {"id", "currency"})
            /\ Goto("silver_expenses_date")
       ELSE /\ Raise("KeyError", "silver_expenses")
            /\ UNCHANGED expenses_df
    /\ UNCHANGED <<inputs, requested, bronzeVars, budget_df, response, kes_to_eur_rate,
                   xof_to_eur_rate, mainVars, log, returned>>

\* silver_expenses lines 140-158: the date column, then amount_eur is dropped.
SilverExpensesDate ==
    /\ pc = "silver_expenses_date"
    /\ IF {"year", "month", "amount_eur"} \subseteq expenses_df.cols
       THEN /\ expenses_df' = DropColumns(WithDate(expenses_df), {"amount_eur"})
            /\ Goto("fetch_kes")
       ELSE /\ Raise("KeyError", "silver_expenses")
            /\ UNCHANGED expenses_df
    /\ UNCHANGED <<inputs, requested, bronzeVars, budget_df, response, kes_to_eur_rate,
                   xof_to_eur_rate, mainVars, log, returned>>

\* kes_to_eur_rate = get_latest_exchange_rate("KES", "EUR")
FetchKes ==
    /\ pc = "fetch_kes"
    /\ requested' = Append(requested, "KES")
    /\ \E r \in Responses :
         /\ response' = r
         /\ IF GetLatestExchangeRate(r).raised = "none"
            THEN /\ kes_to_eur_rate' = GetLatestExchangeRate(r).value
                 /\ returned' = returned \cup {"get_latest_exchange_rate(KES)"}
                 /\ Goto("fetch_xof")
            ELSE /\ Raise(GetLatestExchangeRate(r).raised, "get_latest_exchange_rate")
                 /\ UNCHANGED <<kes_to_eur_rate, returned>>
    /\ UNCHANGED <<inputs, bronzeVars, budget_df, expenses_df, xof_to_eur_rate,
                   mainVars, log>>

\* Variant: the rate of XOF is requested only when a row of that currency is
\* present.
FetchXofWhenPresent ==
    /\ pc = "fetch_xof"
    /\ IF \E k \in DOMAIN expenses_df.rows : expenses_df.rows[k].original_currency = "XOF"
       THEN /\ requested' = Append(requested, "XOF")
            /\ \E r \in Responses :
                 /\ response' = r
                 /\ IF GetLatestExchangeRate(r).raised = "none"
                    THEN /\ xof_to_eur_rate' = GetLatestExchangeRate(r).value
                         /\ returned' = returned \cup {"get_latest_exchange_rate(XOF)"}
                         /\ Goto("silver_expenses_rate")
                    ELSE /\ Raise(GetLatestExchangeRate(r).raised, "get_latest_exchange_rate")
                         /\ UNCHANGED <<xof_to_eur_rate, returned>>
       ELSE /\ Goto("silver_expenses_rate")
            /\ UNCHANGED <<requested, response, xof_to_eur_rate, returned>>
    /\ UNCHANGED <<inputs, bronzeVars, budget_df, expenses_df, kes_to_eur_rate,
                   mainVars, log>>

\* xof_to_eur_rate = get_latest_exchange_rate("XOF", "EUR")
FetchXof ==
    /\ pc = "fetch_xof"
    /\ requested' = Append(requested, "XOF")
    /\ \E r \in Responses :
         /\ response' = r
         /\ IF GetLatestExchangeRate(r).raised = "none"
            THEN /\ xof_to_eur_rate' = GetLatestExchangeRate(r).value
                 /\ returned' = returned \cup {"get_latest_exchange_rate(XOF)"}
                 /\ Goto("silver_expenses_rate")
            ELSE /\ Raise(GetLatestExchangeRate(r).raised, "get_latest_exchange_rate")
                 /\ UNCHANGED <<xof_to_eur_rate, returned>>
    /\ UNCHANGED <<inputs, bronzeVars, budget_df, expenses_df, kes_to_eur_rate,
                   mainVars, log>>

\* eur_to_eur_rate
EUR_TO_EUR_RATE == 1

\* rate_mapping, lines 165-169.
RateMapping(kes, xof) == [EUR |-> EUR_TO_EUR_RATE, KES |-> kes, XOF |-> xof]

\* expenses_df['rate'] = expenses_df['original_currency'].map(rate_mapping)
SilverExpensesRate ==
    /\ pc = "silver_expenses_rate"
    /\ response' = NoResponse
    /\ expenses_df' =
           MapRows(expenses_df, "rate",
                   LAMBDA r : MapValue(RateMapping(kes_to_eur_rate, xof_to_eur_rate),
                                       r.original_currency))
    /\ Goto("silver_expenses_amount")
    /\ UNCHANGED <<inputs, requested, bronzeVars, budget_df, kes_to_eur_rate, xof_to_eur_rate,
                   mainVars, log, returned>>

\* expenses_df['amount_eur'] = expenses_df['amount_local'] * expenses_df['rate'],
\* then return.
SilverExpensesAmount ==
    /\ pc = "silver_expenses_amount"
    /\ expenses_df' = MapRows(expenses_df, "amount_eur",
                              LAMBDA r : Mul(r.amount_local, r.rate))
    /\ returned' = returned \cup {"silver_expenses"}
    /\ Goto("gold_merge")
    /\ UNCHANGED <<inputs, requested, bronzeVars, budget_df, response, kes_to_eur_rate,
                   xof_to_eur_rate, mainVars, log>>

\* Variant: department is not among the join keys.
CommonColumnsWithoutDepartment == {"date", "project_id", "country", "category"}

\* gold_layer.py line 12.
common_columns == {"date", "project_id", "country", "department", "category"}

\* gold(): the inner merge, returned into main.py's df.
GoldMerge ==
    /\ pc = "gold_merge"
    /\ df' = InnerMerge(budget_df, expenses_df, common_columns)
    /\ returned' = returned \cup {"gold"}
    /\ Goto("write_gold")
    /\ UNCHANGED <<inputs, requested, bronzeVars, silverVars, dims, fact_expenses, gold_csv, written, log>>

\* main.py line 9: df.to_csv(path + "gold_df.csv")
WriteGold ==
    /\ pc = "write_gold"
    /\ gold_csv' = df
    /\ written' = written \cup {"gold_df.csv"}
    /\ Goto("dimensions")
    /\ UNCHANGED <<inputs, requested, bronzeVars, silverVars, df, dims, fact_expenses, log, returned>>

\* main.py lines 16-50: the five dimensions.  strftime of NaT is NaN, which
\* astype(int) refuses with a ValueError.
Dimensions ==
    /\ pc = "dimensions"
    /\ IF \E k \in DOMAIN df.rows : df.rows[k].date = NaT
       THEN /\ Raise("ValueError", "main")
            /\ UNCHANGED dims
       ELSE /\ dims' = [date |-> DimDate(df),
                        department |-> Dimension(df, "department", "department_id"),
                        country |-> Dimension(df, "country", "country_id"),
                        category |-> Dimension(df, "category", "category_id"),
                        project |-> Dimension(df, "project_id", "project_id_numeric")]
            /\ Goto("merge_keys")
    /\ UNCHANGED <<inputs, requested, bronzeVars, silverVars, df, fact_expenses, gold_csv, written, log, returned>>

\* main.py lines 53-57: the keys merged back by left joins.
MergeKeys ==
    /\ pc = "merge_keys"
    /\ df' = LeftMerge(LeftMerge(LeftMerge(LeftMerge(LeftMerge(df,
                 dims.date, "date", "date_id"),
                 dims.department, "department", "department_id"),
                 dims.country, "country", "country_id"),
                 dims.category, "category", "category_id"),
                 dims.project, "project_id", "project_id_numeric")
    /\ Goto("fact")
    /\ UNCHANGED <<inputs, requested, bronzeVars, silverVars, dims, fact_expenses, gold_csv, written, log, returned>>

\* main.py line 60: the fact table's columns; KeyError when df lacks one.
Fact ==
    /\ pc = "fact"
    /\ IF FactCols \subseteq df.cols
       THEN /\ fact_expenses' =
                   [cols |-> FactCols,
                    rows |-> [k \in DOMAIN df.rows |-> [c \in FactCols |-> df.rows[k][c]]]]
            /\ Goto("write_tables")
       ELSE /\ Raise("KeyError", "main")
            /\ UNCHANGED fact_expenses
    /\ UNCHANGED <<inputs, requested, bronzeVars, silverVars, df, dims, gold_csv, written, log, returned>>

\* main.py lines 63-68, then the script ends.
WriteTables ==
    /\ pc = "write_tables"
    /\ written' = written \cup (OutputFiles \ {"gold_df.csv"})
    /\ pc' = "exit"
    /\ exitCode' = "0"
    /\ UNCHANGED <<inputs, requested, bronzeVars, silverVars, df, dims, fact_expenses, gold_csv, log,
                   returned, exc>>

Next ==
    \/ Import
    \/ BronzeBudgetStart
    \/ BronzeBudgetFile
    \/ BronzeBudgetReturn
    \/ SilverBudgetReplace
    \/ SilverBudgetDrop
    \/ SilverBudgetDate
    \/ BronzeExpensesStart
    \/ BronzeExpensesFile
    \/ DbConnect
    \/ DbQuery
    \/ DbFinally
    \/ BronzeExpensesAppend
    \/ BronzeExpensesReturn
    \/ SilverExpensesDrop
    \/ SilverExpensesDate
    \/ FetchKes
    \/ FetchXof
    \/ SilverExpensesRate
    \/ SilverExpensesAmount
    \/ GoldMerge
    \/ WriteGold
    \/ Dimensions
    \/ MergeKeys
    \/ Fact
    \/ WriteTables

Spec == Init /\ [][Next]_vars

----------------------------------------------------------------------------
(* Properties *)

\* Number of rows of a frame whose column col holds v.
CountWhere(d, col, v) == Cardinality({k \in DOMAIN d.rows : d.rows[k][col] = v})

\* The rows a readable file holds; an unreadable one holds none that can be read.
FileRowCount(f) == IF f.read = "ok" THEN Len(f.rows) ELSE 0

Logged(kind, where, name) == \E k \in DOMAIN log : log[k] = <<kind, where, name>>

\* The directory entries that are files named <project_id>_budget.csv.
BudgetCsvEntries ==
    {k \in DOMAIN listdir :
        /\ ~listdir[k].isdir
        /\ Len(listdir[k].name) = 3
        /\ listdir[k].name[2] = "_budget"
        /\ listdir[k].name[3] = ".csv"}

\* The directory entries that are files named <project_id>.db.
ExpenseDbEntries ==
    {k \in DOMAIN listdir :
        /\ ~listdir[k].isdir
        /\ Len(listdir[k].name) = 2
        /\ listdir[k].name[2] = ".db"}

AcceptedBudgetEntries ==
    {k \in BudgetCsvEntries : listdir[k].name[1] \in DOMAIN BUDGET_PROJECT_CURRENCY_MAP}

AcceptedExpenseEntries ==
    {k \in ExpenseDbEntries : listdir[k].name[1] \in DOMAIN EXPENSES_PROJECT_CURRENCY_MAP}

RECURSIVE SumRowCounts(_)
SumRowCounts(ks) ==
    IF ks = {} THEN 0
    ELSE LET k == CHOOSE x \in ks : TRUE
         IN FileRowCount(listdir[k]) + SumRowCounts(ks \ {k})

\* C1: once bronze_budget has returned, every <project_id>_budget.csv file
\* whose project id is a key of the budget map has contributed exactly its own
\* rows, every such file with an unknown project id has contributed no row and
\* a warning was printed for it, and the table holds the sum of the accepted
\* files' row counts.
C1_BudgetRowCounts ==
    "bronze_budget" \in returned =>
        /\ \A k \in AcceptedBudgetEntries :
             CountWhere(all_budget_df, "project_id", listdir[k].name[1])
                 = FileRowCount(listdir[k])
        /\ \A k \in BudgetCsvEntries \ AcceptedBudgetEntries :
             /\ CountWhere(all_budget_df, "project_id", listdir[k].name[1]) = 0
             /\ Logged("unknown_project", "bronze_budget", listdir[k].name)
        /\ Len(all_budget_df.rows) = SumRowCounts(AcceptedBudgetEntries)

\* C1's case: an accepted file with two rows beside a file of an unknown project.
C1_Witness ==
    /\ "bronze_budget" \in returned
    /\ \E k \in AcceptedBudgetEntries : FileRowCount(listdir[k]) = 2
    /\ BudgetCsvEntries \ AcceptedBudgetEntries # {}
    /\ Len(all_budget_df.rows) = 2

\* What the envelope of response r entitles the caller to: the target's rate
\* when it reports success and holds the target, None otherwise.
ExpectedRate(r) ==
    IF /\ r.net = "ok"
       /\ r.status < 400
       /\ r.json = "object"
       /\ r.result = "success"
       /\ r.rates = "with_target"
    THEN r.value ELSE None

\* C2: get_latest_exchange_rate never raises to its caller, returns None for
\* every failed outcome of the request, and a number only for a success
\* envelope that holds the target currency.
C2_RateClientNeverRaises ==
    /\ exc.origin # "get_latest_exchange_rate"
    /\ pc = "fetch_xof" => kes_to_eur_rate = ExpectedRate(response)
    /\ pc = "silver_expenses_rate" => xof_to_eur_rate = ExpectedRate(response)

\* The rate silver_expenses resolved for a currency, None when it has none.
ResolvedRate(currency) ==
    IF currency = "EUR" THEN 1
    ELSE IF currency = "KES" THEN kes_to_eur_rate
    ELSE IF currency = "XOF" THEN xof_to_eur_rate
    ELSE None

RatesFetched ==
    {"get_latest_exchange_rate(KES)", "get_latest_exchange_rate(XOF)"} \subseteq returned

C4_AmountEurIsLocalTimesMappedRate ==
    "silver_expenses" \in returned =>
        \A k \in DOMAIN expenses_df.rows :
            LET r == expenses_df.rows[k]
                src == all_expenses_df.rows[k]
                currency == EXPENSES_PROJECT_CURRENCY_MAP[r.project_id].currency
            IN /\ r.original_currency = currency
               /\ r.amount_local = src.amount_local
               /\ ResolvedRate(currency) # None =>
                    /\ r.rate = ResolvedRate(currency)
                    /\ r.amount_eur = src.amount_local * ResolvedRate(currency)
               /\ currency = "EUR" => r.rate = 1 /\ r.amount_eur = src.amount_local

\* C4's case: a EUR row and a KES row converted at 3, neither equal to the
\* database's own amount_eur.
C4_Witness ==
    /\ "silver_expenses" \in returned
    /\ \E k \in DOMAIN expenses_df.rows :
         /\ expenses_df.rows[k].original_currency = "EUR"
         /\ expenses_df.rows[k].amount_eur = 3
         /\ all_expenses_df.rows[k].amount_eur = 99
         /\ all_expenses_df.rows[k].currency = "XOF"
    /\ \E k \in DOMAIN expenses_df.rows :
         /\ expenses_df.rows[k].original_currency = "KES"
         /\ expenses_df.rows[k].amount_local = 3
         /\ expenses_df.rows[k].amount_eur = 9

\* The last calendar day of a month, stated from the calendar.
LastDayOfMonth(y, m) ==
    CASE m \in {1, 3, 5, 7, 8, 10, 12} -> 31
      [] m \in {4, 6, 9, 11} -> 30
      [] m = 2 -> IF y % 400 = 0 \/ (y % 4 = 0 /\ y % 100 # 0) THEN 29 ELSE 28

ExpectedDate(y, m) == IF m \in 1..12 THEN <<y, m, LastDayOfMonth(y, m)>> ELSE NaT

\* Row k of the silver frame s carries the month end of row k of the bronze
\* frame b, or NaT when its year and month form no date; no row is lost.
DatesDerived(s, b) ==
    /\ Len(s.rows) = Len(b.rows)
    /\ \A k \in DOMAIN s.rows : s.rows[k].date = ExpectedDate(b.rows[k].year, b.rows[k].month)

\* C5: silver_budget and silver_expenses give every row the last calendar day
\* of its own year and month, NaT for a month outside 1..12 (the row is kept),
\* and both give the same date for the same year and month.
C5_MonthEndDates ==
    /\ "silver_budget" \in returned => DatesDerived(budget_df, all_budget_df)
    /\ "silver_expenses" \in returned =>
          /\ DatesDerived(expenses_df, all_expenses_df)
          /\ \A a \in DOMAIN budget_df.rows, b \in DOMAIN expenses_df.rows :
               (/\ all_budget_df.rows[a].year = all_expenses_df.rows[b].year
                /\ all_budget_df.rows[a].month = all_expenses_df.rows[b].month)
                   => budget_df.rows[a].date = expenses_df.rows[b].date

\* C5's case: a leap-year February on the expense side, a month 13 kept as NaT
\* on the budget side.
C5_Witness ==
    /\ "silver_expenses" \in returned
    /\ \E k \in DOMAIN expenses_df.rows :
         /\ all_expenses_df.rows[k].year = 2024 /\ all_expenses_df.rows[k].month = 2
         /\ expenses_df.rows[k].date = <<2024, 2, 29>>
    /\ \E k \in DOMAIN budget_df.rows :
         all_budget_df.rows[k].month = 13 /\ budget_df.rows[k].date = NaT

\* The join key of a row.
JoinKey(r) == <<r.date, r.project_id, r.country, r.department, r.category>>

CountKey(d, key) == Cardinality({k \in DOMAIN d.rows : JoinKey(d.rows[k]) = key})

KeysOf(d) == {JoinKey(d.rows[k]) : k \in DOMAIN d.rows}

\* C6: the table gold() returns holds, for every key of date, project_id,
\* country, department and category, as many rows as the product of the numbers
\* of silver budget rows and silver expense rows with that key: a key on one
\* side only has none, duplicates are not merged, and every gold row is a
\* budget row joined to an expense row of its key.
C6_GoldIsInnerJoinOnFiveKeys ==
    pc \in {"write_gold", "dimensions", "merge_keys"} =>
        /\ \A key \in KeysOf(budget_df) \cup KeysOf(expenses_df) \cup KeysOf(df) :
             CountKey(df, key) = CountKey(budget_df, key) * CountKey(expenses_df, key)
        /\ \A k \in DOMAIN df.rows :
             \E a \in DOMAIN budget_df.rows, b \in DOMAIN expenses_df.rows :
                /\ JoinKey(budget_df.rows[a]) = JoinKey(expenses_df.rows[b])
                /\ df.rows[k] = budget_df.rows[a] @@ expenses_df.rows[b]

\* C6's case: two budget rows and two expense rows of one key give four gold rows.
C6_Witness ==
    /\ pc = "write_gold"
    /\ Len(df.rows) = 4
    /\ Len(budget_df.rows) = 2
    /\ Len(expenses_df.rows) = 2

\* The fact table exists.
FactBuilt == pc = "write_tables" \/ exitCode = "0"

\* The key of the dimension row that holds value v in column col.
Resolves(dim, col, idcol, v, id) ==
    /\ id # NaN
    /\ \E k \in DOMAIN dim : dim[k][col] = v /\ dim[k][idcol] = id

DimsBuilt ==
    \/ pc \in {"merge_keys", "fact", "write_tables"}
    \/ exitCode = "0"
    \/ exc = [type |-> "KeyError", origin |-> "main"]

\* Position of the first gold row holding v in column col.
FirstSeen(col, v) ==
    CHOOSE k \in DOMAIN gold_csv.rows :
        /\ gold_csv.rows[k][col] = v
        /\ \A j \in 1..(k - 1) : gold_csv.rows[j][col] # v

\* dim holds each distinct value of the gold column once, in first-seen order.
DistinctInFirstSeenOrder(dim, col) ==
    /\ {dim[k][col] : k \in DOMAIN dim} = {gold_csv.rows[k][col] : k \in DOMAIN gold_csv.rows}
    /\ \A a, b \in DOMAIN dim : a < b => FirstSeen(col, dim[a][col]) < FirstSeen(col, dim[b][col])

C9_ReadFailuresAreIsolated ==
    /\ exc.origin \notin {"extract_budget_from_csv", "extract_expenses_from_db",
                          "bronze_budget", "bronze_expenses"}
    /\ "bronze_budget" \in returned =>
          \A k \in AcceptedBudgetEntries :
             /\ CountWhere(all_budget_df, "project_id", listdir[k].name[1])
                    = FileRowCount(listdir[k])
             /\ listdir[k].read # "ok" => Logged("read_error", "bronze_budget", listdir[k].name)
    /\ "bronze_expenses" \in returned =>
          \A k \in AcceptedExpenseEntries :
             /\ CountWhere(all_expenses_df, "project_id", listdir[k].name[1])
                    = FileRowCount(listdir[k])
             /\ listdir[k].read # "ok" => Logged("read_error", "bronze_expenses", listdir[k].name)

\* C10: the run ends non-zero when the credential is missing, and otherwise
\* ends with status zero after writing every output table.
C10_ExitStatus ==
    pc = "exit" =>
        IF API_KEY THEN exitCode = "0" /\ OutputFiles \subseteq written
        ELSE exitCode = "nonzero"

\* C11: with the directory missing, or holding no file that either path
\* accepts, bronze_budget and bronze_expenses return an empty table (the missing
\* directory being reported by its own message), and neither silver_budget,
\* silver_expenses nor gold fails on the empty table.
C11_EmptyIngestionIsLegitimate ==
    /\ AcceptedBudgetEntries = {} =>
         /\ "bronze_budget" \in returned =>
              /\ IsEmpty(all_budget_df)
              /\ ~dirExists => Logged("directory_not_found", "bronze_budget", <<>>)
         /\ exc.origin \notin {"bronze_budget", "silver_budget", "gold"}
    /\ AcceptedExpenseEntries = {} =>
         /\ "bronze_expenses" \in returned =>
              /\ IsEmpty(all_expenses_df)
              /\ ~dirExists => Logged("directory_not_found", "bronze_expenses", <<>>)
         /\ exc.origin \notin {"bronze_expenses", "silver_expenses", "gold"}

\* C12: a database connection is open only while extract_expenses_from_db is
\* querying the file in hand or about to close it; it is that file's
\* connection and the only one, so every connection is closed before the next
\* file is taken up and before bronze_expenses returns or is left by an
\* exception.
C12_HandleDiscipline ==
    /\ Cardinality(conn) <= 1
    /\ conn # {} => pc \in {"db_query", "db_finally"} /\ conn = {i}
    /\ pc \in {"db_query", "db_finally"} => conn = {i}

\* C12's case: the first database was opened, read and closed, the second was
\* opened and its query failed, and the run has ended with no connection open.
C12_Witness ==
    /\ pc = "exit"
    /\ exc.type = "DatabaseError"
    /\ i = 3
    /\ listdir[2].read = "ok"
    /\ Len(all_expenses_df.rows) = 1
    /\ listdir[3].read = "query_error"
    /\ conn = {}

\* The currencies other than EUR among the rows silver_expenses holds.
NonEurCurrenciesPresent ==
    {expenses_df.rows[k].original_currency : k \in DOMAIN expenses_df.rows} \ {"EUR"}

\* Every row of one currency carries one and the same rate, the value this
\* run obtained for that currency (missing when it obtained none).
UniformRates ==
    \A k \in DOMAIN expenses_df.rows :
        LET r == expenses_df.rows[k] IN
        /\ r.rate = IF ResolvedRate(r.original_currency) = None THEN NaN
                    ELSE ResolvedRate(r.original_currency)
        /\ \A j \in DOMAIN expenses_df.rows :
             expenses_df.rows[j].original_currency = r.original_currency
                 => expenses_df.rows[j].rate = r.rate

\* C13 as stated: when silver_expenses returns, a rate has been requested for
\* exactly the currencies other than EUR found among the expense rows, once
\* each, none for EUR, and the rows of one currency share the one rate obtained.
C13_RequestsMatchCurrenciesPresent ==
    /\ "EUR" \notin Range(requested)
    /\ "silver_expenses" \in returned =>
         /\ Range(requested) = NonEurCurrenciesPresent
         /\ Len(requested) = Cardinality(NonEurCurrenciesPresent)
         /\ UniformRates

\* C13 as the code has it: a run requests the rate of KES and then the rate of
\* XOF, each at most once and never a rate for EUR; by the time the rates are
\* assigned both requests have been made, whichever currencies the expense
\* rows hold; and the rows of one currency share the one rate obtained.
C13_RatesRequestedOncePerRun ==
    /\ requested \in {<<>>, <<"KES">>, <<"KES", "XOF">>}
    /\ (pc \in {"silver_expenses_rate", "silver_expenses_amount"}
            \/ "silver_expenses" \in returned)
         => requested = <<"KES", "XOF">>
    /\ "silver_expenses" \in returned => UniformRates

\* C13's case: two KES rows converted at the one rate obtained, a EUR row, no
\* XOF row, and both rates requested.
C13_Witness ==
    /\ "silver_expenses" \in returned
    /\ requested = <<"KES", "XOF">>
    /\ NonEurCurrenciesPresent = {"KES"}
    /\ \E j, k \in DOMAIN expenses_df.rows :
         /\ j # k
         /\ expenses_df.rows[j].original_currency = "KES"
         /\ expenses_df.rows[k].original_currency = "KES"
         /\ expenses_df.rows[j].rate = 3
         /\ expenses_df.rows[k].rate = 3
    /\ \E k \in DOMAIN expenses_df.rows : expenses_df.rows[k].original_currency = "EUR"

\* C14: every row silver_budget returns has a project_id that is not KEO2 and
\* is a key of the expense map, and its country is the one the expense map
\* gives that project; hence a budget row and an expense row of one project
\* agree on project_id and country.
C14_ReferenceDataConsistent ==
    /\ "silver_budget" \in returned =>
         \A k \in DOMAIN budget_df.rows :
            LET b == budget_df.rows[k] IN
            /\ b.project_id # "KEO2"
            /\ b.project_id \in DOMAIN EXPENSES_PROJECT_CURRENCY_MAP
            /\ b.country = EXPENSES_PROJECT_CURRENCY_MAP[b.project_id].country
    /\ "silver_expenses" \in returned =>
         \A k \in DOMAIN budget_df.rows, j \in DOMAIN expenses_df.rows :
            budget_df.rows[k].project_id = expenses_df.rows[j].project_id
                => budget_df.rows[k].country = expenses_df.rows[j].country

\* C14's case: the budget file KEO2_budget.csv and the database KE02.db, whose
\* rows meet in the gold table under project KE02 and country Kenya.
C14_Witness ==
    /\ "gold" \in returned
    /\ listdir[1].name = CsvName("KEO2")
    /\ listdir[2].name = DbName("KE02")
    /\ \E k \in DOMAIN df.rows :
         df.rows[k].project_id = "KE02" /\ df.rows[k].country = "Kenya"

====
